---- MODULE Spec2Model ----
(***************************************************************************)
(* rmk-cli: the template acquisition and materialization pipeline of       *)
(* src/src/main.rs (create_project, init_project, download_with_progress,  *)
(* post_process), as a state machine over a small file system.             *)
(*                                                                         *)
(* A path is a sequence of segment names below the file-system root.  A    *)
(* file's content is a sequence of text tokens; the placeholder            *)
(* "{{ project_name }}" is the three-token sequence Placeholder, so that   *)
(* str::replace is a real substring replacement.                           *)
(***************************************************************************)
EXTENDS Integers, Sequences, FiniteSets, TLC

\* ------------------------------------------------------------------ bounds
\* Largest number of entries of a generated archive.
MaxEntries == 2

\* ------------------------------------------------------- fixed names, paths
Cwd == <<"w">>
\* init_project: PathBuf::from(&project_name); create_project: ProjectInfo.target_dir
TargetDir == Cwd \o <<"proj">>
\* output_path.join("temp.zip")
TempFilePath == TargetDir \o <<"temp.zip">>
KeyboardTomlPath == Cwd \o <<"keyboard.toml">>
VialJsonPath == Cwd \o <<"vial.json">>
ProjectName == <<"proj">>
Placeholder == <<"{{", "project_name", "}}">>

\* ------------------------------------------------------------ path algebra
RECURSIVE Resolve(_)
\* The node a path names: ".." steps to the parent (the root is its own
\* parent), "." stays.
Resolve(lit) ==
  IF lit = <<>> THEN <<>>
  ELSE LET init == Resolve(SubSeq(lit, 1, Len(lit) - 1))
           last == lit[Len(lit)]
       IN  IF last = ".." THEN (IF init = <<>> THEN <<>> ELSE SubSeq(init, 1, Len(init) - 1))
           ELSE IF last = "." THEN init
           ELSE Append(init, last)

\* Path::parent: the path without its last component (None for the empty path).
Parent(lit) == SubSeq(lit, 1, Len(lit) - 1)

IsPrefix(p, q) == Len(p) <= Len(q) /\ SubSeq(q, 1, Len(p)) = p

\* Path::extension of the last component, by name.
Extension(p) ==
  IF p = <<>> THEN ""
  ELSE LET n == p[Len(p)]
       IN  CASE n \in {"keyboard.toml", "Cargo.toml"} -> "toml"
             [] n = "vial.json" -> "json"
             [] n = "main.rs" -> "rs"
             [] n = "temp.zip" -> "zip"
             [] n = "old.txt" -> "txt"
             [] OTHER -> ""

\* Path::iter over an entry name: a "." component is dropped unless it leads.
Segments(name) ==
  SelectSeq([i \in 1..Len(name) |-> IF name[i] = "." /\ i > 1 THEN "" ELSE name[i]],
            LAMBDA s : s # "")

RECURSIVE Depth(_, _)
\* The component walk of ZipFile::enclosed_name: -1 when the walk meets a
\* root component or steps above the archive root.
Depth(comps, d) ==
  IF d < 0 \/ comps = <<>> THEN d
  ELSE LET c == Head(comps)
       IN  CASE c = "/" -> -1
             [] c = ".." -> Depth(Tail(comps), d - 1)
             [] c = "." -> Depth(Tail(comps), d)
             [] OTHER -> Depth(Tail(comps), d + 1)

\* Mutant: the entry's name is used without the enclosure check.
EnclosedNameUnchecked(name) == TRUE

\* file.enclosed_name().is_some()
EnclosedName(name) == Depth(name, 0) >= 0

\* Mutant: segment 1 is compared ignoring ASCII case.
SelectedIgnoringCase(name, folder) ==
  LET lower(x) == IF x = "Chip" THEN "chip" ELSE x
  IN  Len(Segments(name)) > 1 /\ lower(Segments(name)[2]) = lower(folder)

\* segments.len() > 1 && segments[1] == folder
Selected(name, folder) == Len(Segments(name)) > 1 /\ Segments(name)[2] = folder

\* Mutant: only the archive's root segment is stripped.
OutPathKeepsVariant(name) == TargetDir \o SubSeq(Segments(name), 2, Len(Segments(name)))

\* output_path.join(file_name.iter().skip(2).collect())
OutPath(name) == TargetDir \o SubSeq(Segments(name), 3, Len(Segments(name)))

\* ------------------------------------------------------------- file system
Dir(origin) == [kind |-> "dir", content |-> <<>>, origin |-> origin]
File(content, origin) == [kind |-> "file", content |-> content, origin |-> origin]

Exists(f, p) == p \in DOMAIN f
IsDir(f, p) == p \in DOMAIN f /\ f[p].kind = "dir"
IsFile(f, p) == p \in DOMAIN f /\ f[p].kind = "file"

Put(f, p, node) == [q \in DOMAIN f \cup {p} |-> IF q = p THEN node ELSE f[q]]

\* fs::remove_dir_all / fs::remove_file: the node and everything below it.
Remove(f, p) == [q \in {r \in DOMAIN f : ~IsPrefix(p, r)} |-> f[q]]

RECURSIVE MkDirs(_, _, _)
\* fs::create_dir_all(lit): every prefix of lit, shortest first, is made a
\* directory unless it is one; a prefix that is a file ends it with an error.
MkDirs(f, lit, k) ==
  IF k > Len(lit) THEN [ok |-> TRUE, fs |-> f]
  ELSE LET p == Resolve(SubSeq(lit, 1, k))
       IN  IF IsFile(f, p) THEN [ok |-> FALSE, fs |-> f]
           ELSE MkDirs(IF Exists(f, p) THEN f ELSE Put(f, p, Dir("run")), lit, k + 1)

CreateDirAll(f, lit) == MkDirs(f, lit, 0)

\* File::create(lit): creates or truncates the file; fails when the parent is
\* no directory or the path names a directory.
CanCreateFile(f, lit) ==
  /\ lit # <<>>
  /\ IsDir(f, Resolve(Parent(lit)))
  /\ ~IsDir(f, Resolve(lit))
  /\ lit[Len(lit)] \notin {".", ".."}

\* ------------------------------------------------------------------- text
RECURSIVE Replace(_, _, _)
\* str::replace(from, to): every non-overlapping match, left to right.
Replace(s, from, to) ==
  IF Len(s) < Len(from) THEN s
  ELSE IF SubSeq(s, 1, Len(from)) = from
       THEN to \o Replace(SubSeq(s, Len(from) + 1, Len(s)), from, to)
       ELSE <<Head(s)>> \o Replace(Tail(s), from, to)

RECURSIVE Occurrences(_, _)
Occurrences(s, from) ==
  IF Len(s) < Len(from) THEN 0
  ELSE IF SubSeq(s, 1, Len(from)) = from
       THEN 1 + Occurrences(SubSeq(s, Len(from) + 1, Len(s)), from)
       ELSE Occurrences(Tail(s), from)

\* ---------------------------------------------------------------- archives
Entry(name, isDir, content) ==
  [name |-> name, isDir |-> isDir, content |-> content, readable |-> TRUE]

KeyboardTemplate == <<"{{", "project_name", "}}", "=", "{{", "project_name", "}}">>

\* The entries generated archives are built from.
EntryShapes ==
  { Entry(<<"root", "chip", "keyboard.toml">>, FALSE, KeyboardTemplate),
    Entry(<<"root", "chip", "Cargo.toml">>, FALSE, <<"[package]">>),
    Entry(<<"root", "chip", "src", "main.rs">>, FALSE, Placeholder),
    Entry(<<"root", "chip", "src">>, TRUE, <<>>),
    Entry(<<"root", "chip", "src">>, FALSE, <<"s">>),
    Entry(<<"root", "Chip", "keyboard.toml">>, FALSE, <<"other">>),
    Entry(<<"root", "chip", "..", "keyboard.toml">>, FALSE, <<"evil">>),
    Entry(<<"..", "x">>, FALSE, <<"evil">>),
    Entry(<<"..", "chip", "x">>, FALSE, <<"evil">>),
    Entry(<<"root", "chip", "temp.zip">>, FALSE, <<"t">>),
    Entry(<<"root", "chip", "temp.zip">>, FALSE, <<>>),
    Entry(<<"root">>, TRUE, <<>>),
    Entry(<<"root", "chip">>, TRUE, <<>>),
    Entry(<<"root", "chip">>, FALSE, <<"c">>),
    [Entry(<<"root", "chip", "Cargo.toml">>, FALSE, <<"[package]">>) EXCEPT !.readable = FALSE],
    [Entry(<<"..", "x">>, FALSE, <<"evil">>) EXCEPT !.readable = FALSE] }

\* The archive of the end-to-end scenario.
ScenarioArchive ==
  << Entry(<<"root", "chip", "keyboard.toml">>, FALSE, KeyboardTemplate),
     Entry(<<"root", "chip", "src", "main.rs">>, FALSE, Placeholder),
     Entry(<<"root", "other_chip", "keyboard.toml">>, FALSE, <<"other">>) >>

\* An archive with two file entries of one path and different bytes.
RepeatedPathArchive ==
  << Entry(<<"root", "chip", "Cargo.toml">>, FALSE, <<"[old]">>),
     Entry(<<"root", "chip", "Cargo.toml">>, FALSE, <<"[package]">>) >>

Archives ==
  UNION {[1..n -> EntryShapes] : n \in 0..MaxEntries}
    \cup {ScenarioArchive, RepeatedPathArchive}

\* The bytes of an archive: one block per entry, then the central directory.
Body(a) == [i \in 1..Len(a) + 1 |-> IF i <= Len(a) THEN ToString(i) ELSE "cd"]

\* Mutant: only client and server errors count as failures.
IsSuccessBelow400(st) == 200 <= st /\ st < 400

\* response.status().is_success()
IsSuccess(st) == 200 <= st /\ st <= 299

\* format!("{}_{}", chip, "split") or chip.clone()
RemoteFolder(chip, isSplit) ==
  IF isSplit THEN (CASE chip = "chip" -> "chip_split" [] OTHER -> "") ELSE chip

\* ------------------------------------------------------------------ state
VARIABLES
  entryPoint,     \* "create" or "init": the command main dispatches to
  prior,          \* the target directory exists, with contents, when the run starts
  split,          \* init: the split flag
  archive,        \* the archive the server holds
  fs,             \* the file system: path -> node
  pc,             \* the position of the run in the code
  err,            \* the error the run ended with, "None" while there is none
  status,         \* the status of the response, 0 before there is one
  folder,         \* project_info.remote_folder
  guard,          \* _cleanup_guard is alive
  stream,         \* the chunks of the response body not yet received
  requests,       \* number of GET requests sent
  idx,            \* the extraction loop's i
  folderFound,    \* folder_found
  todo,           \* the walker's entries not yet visited
  visited,        \* history: the pipeline states entered, in order
  written,        \* history: [idx, path] created or written while extracting entry idx
  rewritten,      \* history: [path, old, new, ok] of each fs::write of post_process
  skipped,        \* history: the directories whose walk errors were dropped
  fsAtExtract,    \* history: the file system when the archive was opened
  fsAtFail        \* history: the file system as the failing call left it, before cleanup

vars == <<entryPoint, prior, split, archive, fs, pc, err, status, folder, guard, stream,
          requests, idx, folderFound, todo, visited, written, rewritten, skipped,
          fsAtExtract, fsAtFail>>

\* The pipeline state a code position belongs to.
StateOf(p) ==
  CASE p = "Idle" -> "Idle"
    [] p \in {"Clean", "Send", "CreateTemp", "Stream"} -> "Fetching"
    [] p \in {"Open", "Extract"} -> "Extracting"
    [] p \in {"CopyKeyboard", "CopyVial"} -> "Overlaying"
    [] p \in {"Walk", "Rewrite"} -> "Rewriting"
    [] p = "Done" -> "Done"
    [] OTHER -> "Failed"

Goto(p) ==
  /\ pc' = p
  /\ visited' = IF StateOf(p) = StateOf(pc) THEN visited ELSE Append(visited, StateOf(p))

UserKeyboardToml == File(<<"name", "=", "{{", "project_name", "}}">>, "user")
UserVialJson == File(<<"{", "}">>, "user")

BaseFs ==
  (<<>> :> Dir("env")) @@ (Cwd :> Dir("env"))
  @@ (KeyboardTomlPath :> UserKeyboardToml) @@ (VialJsonPath :> UserVialJson)

\* A destination directory left by an earlier run.
PriorFs ==
  BaseFs @@ (TargetDir :> Dir("prior"))
  @@ (TargetDir \o <<"old.txt">> :> File(<<"old">>, "prior"))
  @@ (TargetDir \o <<"keyboard.toml">> :> File(KeyboardTemplate, "prior"))

Init ==
  /\ entryPoint \in {"create", "init"}
  /\ split \in (IF entryPoint = "init" THEN BOOLEAN ELSE {FALSE})
  /\ archive \in Archives
  /\ prior \in BOOLEAN
  /\ fs = IF prior THEN PriorFs ELSE BaseFs
  /\ pc = "Idle"
  /\ err = "None"
  /\ status = 0
  /\ folder = ""
  /\ guard = FALSE
  /\ stream = <<>>
  /\ requests = 0
  /\ idx = 0
  /\ folderFound = FALSE
  /\ todo = {}
  /\ visited = <<"Idle">>
  /\ written = {}
  /\ rewritten = {}
  /\ skipped = {}
  /\ fsAtExtract = BaseFs
  /\ fsAtFail = BaseFs


inputs == <<entryPoint, prior, split, archive>>

\* A run ends with an error: the Err returned from main, or process::exit(1).
Fail(kind) == Goto("Failed") /\ err' = kind

\* Mutant: the cleanup removes the whole output directory.
DropGuardWholeDirectory(f) == {Remove(f, TargetDir)}

\* TempFileCleanup::drop: the temp file is removed if it exists; a failure
\* of remove_file is printed and otherwise ignored.
DropGuard(f) ==
  IF Exists(f, TempFilePath) THEN {Remove(f, TempFilePath), f} ELSE {f}

\* A step outside the scope of _cleanup_guard: if it ends the run, nothing is
\* cleaned up after it.
NoCleanup == fsAtFail' = IF pc' = "Failed" THEN fs' ELSE fsAtFail

\* An Err leaves download_with_progress while _cleanup_guard is alive.
FailDrop(kind, f) ==
  /\ Fail(kind)
  /\ fsAtFail' = f
  /\ fs' \in DropGuard(f)
  /\ guard' = FALSE

\* ----------------------------------------------------------- entry points
\* create_project up to the download: the prompts and parse_keyboard_toml.
ParseKeyboardToml ==
  /\ pc = "Idle" /\ entryPoint = "create"
  /\ \/ /\ Fail("ParseFailed")
        /\ UNCHANGED folder
     \/ /\ folder' = "chip"
        /\ Goto("Clean")
        /\ UNCHANGED err
  /\ UNCHANGED <<inputs, fs, status, guard, stream, requests, idx, folderFound, todo,
                 written, rewritten, skipped, fsAtExtract>>
  /\ NoCleanup

\* init_project up to the download: the prompts, create_dir_all(target_dir)
\* with process::exit(1) on its error, and the choice of remote_folder.
InitProject ==
  /\ pc = "Idle" /\ entryPoint = "init"
  /\ LET made == CreateDirAll(fs, TargetDir)
     IN  \/ /\ Fail("DirectoryCreationFailed")
            /\ UNCHANGED <<fs, folder>>
         \/ /\ made.ok
            /\ fs' = made.fs
            /\ folder' = RemoteFolder("chip", split)
            /\ Goto("Clean")
            /\ UNCHANGED err
  /\ UNCHANGED <<inputs, status, guard, stream, requests, idx, folderFound, todo,
                 written, rewritten, skipped, fsAtExtract>>
  /\ NoCleanup

\* ------------------------------------------------- download_with_progress
\* Mutant: the output path is not removed first.
CleanDirKeepsContents(f) == f

\* if output_path.exists() { fs::remove_dir_all(output_path)?; }
CleanDir(f) == IF Exists(f, TargetDir) THEN Remove(f, TargetDir) ELSE f

\* "Ensure the output path is clean": remove_dir_all if it exists, then
\* create_dir_all.
CleanOutputPath ==
  /\ pc = "Clean"
  /\ LET removed == CleanDir(fs)
         made == CreateDirAll(removed, TargetDir)
     IN  \/ \* remove_dir_all fails, before or after removing some child
            /\ Exists(fs, TargetDir)
            /\ Fail("Io")
            /\ fs' \in {fs} \cup {Remove(fs, c) : c \in {q \in DOMAIN fs :
                                    Len(q) = Len(TargetDir) + 1 /\ IsPrefix(TargetDir, q)}}
         \/ \* create_dir_all fails
            /\ IsDir(fs, TargetDir) \/ ~Exists(fs, TargetDir)
            /\ Fail("Io")
            /\ fs' = removed
         \/ /\ IsDir(fs, TargetDir) \/ ~Exists(fs, TargetDir)
            /\ made.ok
            /\ fs' = made.fs
            /\ Goto("Send")
            /\ UNCHANGED err
  /\ UNCHANGED <<inputs, status, folder, guard, stream, requests, idx, folderFound, todo,
                 written, rewritten, skipped, fsAtExtract>>
  /\ NoCleanup

\* client.get(download_url).send().await? and the status check.
SendRequest ==
  /\ pc = "Send"
  /\ requests' = requests + 1
  /\ \/ \* the request fails
        /\ Fail("RequestFailed")
        /\ UNCHANGED <<status, stream>>
     \/ \E st \in {200, 300, 404, 503}, isZip \in BOOLEAN :
          /\ status' = st
          /\ IF IsSuccess(st)
             THEN /\ stream' = IF isZip THEN Body(archive) ELSE <<"html">>
                  /\ Goto("CreateTemp")
                  /\ UNCHANGED err
             ELSE /\ isZip
                  /\ Fail("DownloadFailed")
                  /\ UNCHANGED stream
  /\ UNCHANGED <<inputs, fs, folder, guard, idx, folderFound, todo, written, rewritten,
                 skipped, fsAtExtract>>
  /\ NoCleanup

\* File::create(&temp_file_path)? and the construction of _cleanup_guard.
CreateTemp ==
  /\ pc = "CreateTemp"
  /\ \/ /\ Fail("Io")
        /\ UNCHANGED <<fs, guard>>
     \/ /\ CanCreateFile(fs, TempFilePath)
        /\ fs' = Put(fs, TempFilePath, File(<<>>, "temp"))
        /\ guard' = TRUE
        /\ Goto("Stream")
        /\ UNCHANGED err
  /\ UNCHANGED <<inputs, status, folder, stream, requests, idx, folderFound, todo,
                 written, rewritten, skipped, fsAtExtract>>
  /\ NoCleanup

\* Mutant: every chunk is written from the start of the file.
AppendChunkFromStart(content, chunk) == <<chunk>>

\* temp_file.write_all(&chunk)?: the chunk goes after what is already there.
AppendChunk(content, chunk) == Append(content, chunk)

\* One turn of `while let Some(chunk) = stream.next().await`.
NextChunk ==
  /\ pc = "Stream"
  /\ IF stream = <<>>
     THEN /\ Goto("Open")
          /\ UNCHANGED <<fs, err, guard, stream, fsAtFail>>
     ELSE \/ \* chunk? or write_all? is an Err
             /\ FailDrop("Io", fs)
             /\ UNCHANGED stream
          \/ /\ IsFile(fs, TempFilePath)
             /\ fs' = [fs EXCEPT ![TempFilePath].content = AppendChunk(@, Head(stream))]
             /\ stream' = Tail(stream)
             /\ UNCHANGED <<pc, visited, err, guard, fsAtFail>>
  /\ UNCHANGED <<inputs, status, folder, requests, idx, folderFound, todo, written,
                 rewritten, skipped, fsAtExtract>>

\* The temp file still holds the downloaded archive.
Intact(f) == IsFile(f, TempFilePath) /\ f[TempFilePath].content = Body(archive)

\* File::open(&temp_file_path)? and ZipArchive::new(zip_file)?.
OpenArchive ==
  /\ pc = "Open"
  /\ \/ /\ FailDrop("Io", fs)
        /\ UNCHANGED <<idx, folderFound, fsAtExtract>>
     \/ /\ ~Intact(fs)
        /\ FailDrop("Zip", fs)
        /\ UNCHANGED <<idx, folderFound, fsAtExtract>>
     \/ /\ Intact(fs)
        /\ idx' = 0
        /\ folderFound' = FALSE
        /\ fsAtExtract' = fs
        /\ UNCHANGED fsAtFail
        /\ Goto("Extract")
        /\ UNCHANGED <<fs, err, guard>>
  /\ UNCHANGED <<inputs, status, folder, stream, requests, todo, written, rewritten,
                 skipped>>


\* The paths that differ between two file systems.
Touched(old, new) ==
  {q \in DOMAIN new : q \notin DOMAIN old \/ new[q] # old[q]}
  \cup {q \in DOMAIN old : q \notin DOMAIN new}

Outcome(kind, f, paths) == [err |-> kind, fs |-> f, paths |-> paths]

\* The body of the extraction loop for a selected entry: the outcomes of
\* create_dir_all / File::create / io::copy on out_path.
WriteEntry(f, e) ==
  LET out == OutPath(e.name)
      target == Resolve(out)
  IN  IF e.isDir
      THEN LET made == CreateDirAll(f, out)
           IN  {Outcome("Io", f, {})} \cup
               {Outcome(IF made.ok THEN "None" ELSE "Io", made.fs,
                        Touched(f, made.fs) \cup (IF made.ok THEN {target} ELSE {}))}
      ELSE LET made == CreateDirAll(f, Parent(out))
               dirs == Touched(f, made.fs)
               created == Put(made.fs, target, File(<<>>, "template"))
               copied == Put(made.fs, target, File(e.content, "template"))
           IN  {Outcome("Io", f, {})} \cup
               (IF ~made.ok \/ ~CanCreateFile(made.fs, out)
                THEN {Outcome("Io", made.fs, dirs)}
                ELSE {Outcome("Io", created, dirs \cup {target})} \cup
                     (IF Intact(created) \/ e.content = <<>>
                      THEN {Outcome("None", copied, dirs \cup {target})}
                      ELSE {}))

\* Mutant: the selection test comes before the enclosure check, so an
\* entry outside the selected folder is skipped unchecked.
EntryOutcomesSelectionFirst(f, e) ==
  IF ~e.readable \/ ~Intact(f) THEN {Outcome("Zip", f, {})}
  ELSE IF ~Selected(e.name, folder) THEN {Outcome("None", f, {})}
  ELSE IF ~EnclosedName(e.name) THEN {Outcome("InvalidFilePath", f, {})}
  ELSE WriteEntry(f, e)

\* One turn of `for i in 0..zip.len()`: by_index, enclosed_name, the
\* selection test and the write.
EntryOutcomes(f, e) ==
  IF ~e.readable \/ ~Intact(f) THEN {Outcome("Zip", f, {})}
  ELSE IF ~EnclosedName(e.name) THEN {Outcome("InvalidFilePath", f, {})}
  ELSE IF Selected(e.name, folder) THEN WriteEntry(f, e)
  ELSE {Outcome("None", f, {})}

RECURSIVE ExtractAll(_, _, _)
\* The whole loop `for i in 0..zip.len()` from entry i on, with no I/O fault
\* from the environment, and the folder_found test after it.
ExtractAll(f, a, i) ==
  IF i > Len(a)
  THEN [ok |-> \E k \in 1..Len(a) : Selected(a[k].name, folder), fs |-> f]
  ELSE LET good == {o \in EntryOutcomes(f, a[i]) : o.err = "None"}
       IN  IF good = {} THEN [ok |-> FALSE, fs |-> f]
           ELSE ExtractAll((CHOOSE o \in good : TRUE).fs, a, i + 1)

ExtractEntry ==
  /\ pc = "Extract"
  /\ idx < Len(archive)
  /\ LET e == archive[idx + 1]
     IN  \E o \in EntryOutcomes(fs, e) :
           /\ written' = written \cup {[idx |-> idx, path |-> q] : q \in o.paths}
           /\ folderFound' = (folderFound \/
                                (e.readable /\ Intact(fs) /\ EnclosedName(e.name)
                                 /\ Selected(e.name, folder)))
           /\ IF o.err = "None"
              THEN /\ fs' = o.fs
                   /\ idx' = idx + 1
                   /\ UNCHANGED <<pc, visited, err, guard, fsAtFail>>
              ELSE /\ FailDrop(o.err, o.fs)
                   /\ UNCHANGED idx
  /\ UNCHANGED <<inputs, status, folder, stream, requests, todo, rewritten, skipped,
                 fsAtExtract>>

\* Mutant: create_project goes on to post_process without the two copies.
AfterDownloadNoOverlay(ep) == "Walk"

\* What the entry point does after download_project_template(..).await?:
\* create_project copies the two files, init_project calls post_process.
AfterDownload(ep) == IF ep = "create" THEN "CopyKeyboard" ELSE "Walk"

\* The end of the loop: the folder_found test, the Ok(()) return and the
\* drop of _cleanup_guard; then the caller's next step.
FinishExtract ==
  /\ pc = "Extract"
  /\ idx = Len(archive)
  /\ IF ~folderFound
     THEN FailDrop("VariantNotFound", fs)
     ELSE /\ fs' \in DropGuard(fs)
          /\ guard' = FALSE
          /\ Goto(AfterDownload(entryPoint))
          /\ UNCHANGED <<err, fsAtFail>>
  /\ UNCHANGED <<inputs, status, folder, stream, requests, idx, folderFound, todo,
                 written, rewritten, skipped, fsAtExtract>>

\* ---------------------------------------------------------- create_project
\* fs::copy(from, to): the source must be a file, the target creatable.
CanCopy(f, from, to) == IsFile(f, from) /\ CanCreateFile(f, to)

\* Mutant: the target is opened for appending instead of being truncated.
CopyFileAppending(f, from, to) ==
  Put(f, Resolve(to),
      File((IF IsFile(f, Resolve(to)) THEN f[Resolve(to)].content ELSE <<>>)
             \o f[from].content, "overlay"))

CopyFile(f, from, to) == Put(f, Resolve(to), File(f[from].content, "overlay"))

\* The two copies of create_project, one after the other; the second is not
\* tried when the first is an Err.
Overlay(f) ==
  LET k == TargetDir \o <<"keyboard.toml">>
      v == TargetDir \o <<"vial.json">>
  IN  IF ~CanCopy(f, KeyboardTomlPath, k) THEN [ok |-> FALSE, fs |-> f]
      ELSE LET g == CopyFile(f, KeyboardTomlPath, k)
           IN  IF ~CanCopy(g, VialJsonPath, v) THEN [ok |-> FALSE, fs |-> g]
               ELSE [ok |-> TRUE, fs |-> CopyFile(g, VialJsonPath, v)]

\* fs::copy(&keyboard_toml_path, target_dir.join("keyboard.toml"))?
CopyKeyboard ==
  /\ pc = "CopyKeyboard"
  /\ LET to == TargetDir \o <<"keyboard.toml">>
     IN  \/ /\ Fail("Io")
            /\ UNCHANGED fs
         \/ /\ CanCopy(fs, KeyboardTomlPath, to)
            /\ fs' = CopyFile(fs, KeyboardTomlPath, to)
            /\ Goto("CopyVial")
            /\ UNCHANGED err
  /\ UNCHANGED <<inputs, status, folder, guard, stream, requests, idx, folderFound, todo,
                 written, rewritten, skipped, fsAtExtract>>
  /\ NoCleanup

\* fs::copy(&vial_json_path, target_dir.join("vial.json"))?
CopyVial ==
  /\ pc = "CopyVial"
  /\ LET to == TargetDir \o <<"vial.json">>
     IN  \/ /\ Fail("Io")
            /\ UNCHANGED fs
         \/ /\ CanCopy(fs, VialJsonPath, to)
            /\ fs' = CopyFile(fs, VialJsonPath, to)
            /\ Goto("Walk")
            /\ UNCHANGED err
  /\ UNCHANGED <<inputs, status, folder, guard, stream, requests, idx, folderFound, todo,
                 written, rewritten, skipped, fsAtExtract>>
  /\ NoCleanup

\* ------------------------------------------------------------ post_process
\* The directories of the tree under the target directory.
DirsUnder(f) == {q \in DOMAIN f : IsPrefix(TargetDir, q) /\ f[q].kind = "dir"}

\* Mutant: the walker's extension filter lets every path through.
MatchesAnyExtension(p) == TRUE

\* .filter(|e| e.path().extension().map_or(false, |ext| ext == "toml"))
Matches(p) == Extension(p) = "toml"

\* What the walker yields when the directories in `unreadable` cannot be
\* listed: .filter_map(|e| e.ok()) drops their errors, and with them every
\* entry below them.
Walker(f, unreadable) ==
  {q \in DOMAIN f :
     /\ IsPrefix(TargetDir, q)
     /\ Matches(q)
     /\ \A d \in unreadable : ~(IsPrefix(d, q) /\ d # q)}

\* The construction of the walker.
StartWalk ==
  /\ pc = "Walk"
  /\ \E unreadable \in SUBSET DirsUnder(fs) :
       /\ todo' = Walker(fs, unreadable)
       /\ skipped' = {d \in unreadable :
                        \A a \in unreadable : ~(IsPrefix(a, d) /\ a # d)}
  /\ Goto("Rewrite")
  /\ UNCHANGED <<inputs, fs, err, status, folder, guard, stream, requests, idx,
                 folderFound, written, rewritten, fsAtExtract>>
  /\ NoCleanup

\* content.replace("{{ project_name }}", &project_info.project_name)
NewContent(content) == Replace(content, Placeholder, ProjectName)

\* The contents fs::write can leave a file with: the new content, or on a
\* failure the old one (the open failed) or none (it failed after truncating).
WriteResults(old, new) == {[ok |-> TRUE, content |-> new],
                           [ok |-> FALSE, content |-> old],
                           [ok |-> FALSE, content |-> <<>>]}

\* One turn of `for entry in walker`: read_to_string, replace, fs::write.
RewriteFile ==
  /\ pc = "Rewrite"
  /\ \E p \in todo :
       \/ \* read_to_string is an Err
          /\ Fail("Io")
          /\ UNCHANGED <<fs, todo, rewritten>>
       \/ /\ IsFile(fs, p)
          /\ \E w \in WriteResults(fs[p].content, NewContent(fs[p].content)) :
               /\ fs' = [fs EXCEPT ![p].content = w.content]
               /\ rewritten' = rewritten \cup
                    {[path |-> p, old |-> fs[p].content, new |-> w.content, ok |-> w.ok]}
               /\ IF w.ok
                  THEN /\ todo' = todo \ {p}
                       /\ UNCHANGED <<pc, visited, err>>
                  ELSE /\ Fail("Io")
                       /\ UNCHANGED todo
  /\ UNCHANGED <<inputs, status, folder, guard, stream, requests, idx, folderFound,
                 written, skipped, fsAtExtract>>
  /\ NoCleanup

\* The walker is exhausted: post_process and the entry point return Ok(()).
FinishRewrite ==
  /\ pc = "Rewrite"
  /\ todo = {}
  /\ Goto("Done")
  /\ UNCHANGED <<inputs, fs, err, status, folder, guard, stream, requests, idx,
                 folderFound, todo, written, rewritten, skipped, fsAtExtract>>
  /\ NoCleanup

\* ------------------------------------------------------------- interruption
\* The process is interrupted: main installs no signal handler, so the
\* process ends where it is and no destructor runs.
Interrupt ==
  /\ pc \notin {"Done", "Failed"}
  /\ Fail("Interrupted")
  /\ UNCHANGED <<inputs, fs, status, folder, guard, stream, requests, idx, folderFound,
                 todo, written, rewritten, skipped, fsAtExtract>>
  /\ NoCleanup

Next ==
  \/ Interrupt
  \/ ParseKeyboardToml
  \/ InitProject
  \/ CleanOutputPath
  \/ SendRequest
  \/ CreateTemp
  \/ NextChunk
  \/ OpenArchive
  \/ ExtractEntry
  \/ FinishExtract
  \/ CopyKeyboard
  \/ CopyVial
  \/ StartWalk
  \/ RewriteFile
  \/ FinishRewrite

Spec == Init /\ [][Next]_vars


\* ====================================================================
\* Properties
\* ====================================================================
\* The claims' own reading of the selection rule and of the output path,
\* stated apart from the operators that model the code.
ClaimSelected(e) ==
  LET segs == Segments(e.name) IN Len(segs) >= 2 /\ segs[2] = folder

Stripped(e) == SubSeq(Segments(e.name), 3, Len(Segments(e.name)))

Landing(e) == Resolve(TargetDir \o Stripped(e))

\* The directories on the way from the target directory to an entry's path.
Ancestors(e) ==
  {Resolve(TargetDir \o SubSeq(Stripped(e), 1, k)) : k \in 0..Len(Stripped(e))}

Under(p) == IsPrefix(TargetDir, p)

Terminal == pc \in {"Done", "Failed"}

\* The pipeline state the run failed from.
FailedFrom == IF pc = "Failed" THEN visited[Len(visited) - 1] ELSE "None"

\* The archive was opened by the extraction step.
Opened == Exists(fsAtExtract, TempFilePath)

NoneSelected == \A i \in 1..Len(archive) : ~ClaimSelected(archive[i])

\* The paths changed since the archive was opened, the temp file aside.
ChangedByExtraction == Touched(fsAtExtract, fs) \ {TempFilePath}

\* C1: once the pipeline has reached Done or Failed, the temp archive file
\* does not exist on disk - after a success, after a failure at any step and
\* after an interruption at any point.
C1_TempFileGone == Terminal => ~Exists(fs, TempFilePath)

\* C2 (as claimed): if no entry has segment 1 equal to the selector, the
\* extraction step fails with the variant-not-found error and no other, and
\* leaves the destination as it found it.
C2_VariantNotFoundOnly ==
  (Opened /\ NoneSelected /\ FailedFrom = "Extracting" /\ err # "Interrupted")
    => (err = "VariantNotFound" /\ ChangedByExtraction = {})

\* The error of the first entry the loop cannot get past without looking at
\* the selector: an unreadable entry or a path that is not enclosed.
RECURSIVE FirstEntryError(_)
FirstEntryError(a) ==
  IF a = <<>> THEN "None"
  ELSE IF ~Head(a).readable THEN "Zip"
  ELSE IF Depth(Head(a).name, 0) < 0 THEN "InvalidFilePath"
  ELSE FirstEntryError(Tail(a))

\* C2 (amended): if no entry has segment 1 equal to the selector, the
\* extraction step never succeeds; it fails with the variant-not-found error
\* when every entry is readable and has an enclosed path, and otherwise with
\* the error of the first entry that is unreadable or has no enclosed path;
\* in both cases extraction creates no file and no directory.
C2_NoMatchFails ==
  (Opened /\ NoneSelected) =>
    /\ StateOf(pc) \in {"Extracting", "Failed"}
    /\ written = {}
    /\ ChangedByExtraction = {}
    /\ (FailedFrom = "Extracting" /\ err # "Interrupted") =>
         err = (IF FirstEntryError(archive) = "None" THEN "VariantNotFound"
                ELSE FirstEntryError(archive))

\* C2 witness: a non-empty archive without a matching entry was scanned to
\* its end and the run failed with the variant-not-found error.
C2_Witness ==
  /\ pc = "Failed" /\ err = "VariantNotFound"
  /\ Len(archive) = MaxEntries /\ NoneSelected /\ idx = Len(archive)
  /\ entryPoint = "create"

\* C3: an entry the extraction loop has processed was written iff it has at
\* least two segments and segment 1 equals the selector; it lands at the
\* target directory joined with its path minus the first two segments; and
\* extraction creates or writes nothing but these paths and the directories
\* leading to them.
C3_SelectedEntriesOnly ==
  (Opened /\ (pc = "Extract" \/ FailedFrom = "Extracting")) =>
    /\ \A i \in 0..(idx - 1) :
         LET e == archive[i + 1]
         IN  /\ ClaimSelected(e) <=> (\E w \in written : w.idx = i)
             /\ ClaimSelected(e) => [idx |-> i, path |-> Landing(e)] \in written
    /\ \A w \in written :
         LET e == archive[w.idx + 1]
         IN  /\ ClaimSelected(e)
             /\ w.path \in Ancestors(e)
             /\ w.path # Landing(e) => IsDir(fs, w.path)
    /\ ChangedByExtraction \subseteq {w.path : w \in written}

\* C3 witness: the end-to-end scenario, extracted to its end: the target
\* directory holds keyboard.toml and src/main.rs and nothing of other_chip.
C3_Witness ==
  /\ archive = ScenarioArchive /\ pc = "Extract" /\ idx = 3
  /\ {q \in DOMAIN fs : Under(q) /\ q # TempFilePath /\ fs[q].kind = "file"}
       = {TargetDir \o <<"keyboard.toml">>, TargetDir \o <<"src", "main.rs">>}
  /\ fs[TargetDir \o <<"src", "main.rs">>].content = Placeholder

\* An entry whose path has a parent-directory segment and whose output path
\* resolves outside the target directory.
Escapes(e) == ".." \in {e.name[k] : k \in 1..Len(e.name)} /\ ~Under(Landing(e))

\* C4: an entry whose decoded path has a parent-directory segment that
\* resolves outside the destination directory is rejected: no file or
\* directory is written for it, and nothing outside the destination changes.
C4_NoTraversal ==
  /\ \A w \in written : ~Escapes(archive[w.idx + 1])
  /\ \A i \in 1..Len(archive) :
       ~(Escapes(archive[i]) /\ ClaimSelected(archive[i]) /\ idx >= i)
  /\ Opened => \A q \in ChangedByExtraction : Under(q)


FullOrder == <<"Idle", "Fetching", "Extracting", "Overlaying", "Rewriting", "Done">>
InitOrder == <<"Idle", "Fetching", "Extracting", "Rewriting", "Done">>

\* v walks along order from its start, or leaves it for Failed before Done.
FollowsOrder(v, order) ==
  \/ IsPrefix(v, order)
  \/ /\ Len(v) >= 2
     /\ v[Len(v)] = "Failed"
     /\ IsPrefix(SubSeq(v, 1, Len(v) - 1), order)
     /\ v[Len(v) - 1] # "Done"

\* C5 (as claimed): every run of either entry point visits the pipeline
\* states in the order Idle, Fetching, Extracting, Overlaying, Rewriting,
\* Done, none twice and none skipped, any of them may go to Failed, and
\* nothing happens after Done or Failed.
C5_OneOrder ==
  /\ FollowsOrder(visited, FullOrder)
  /\ visited[Len(visited)] = StateOf(pc)
  /\ Terminal => ~ENABLED Next

\* C5 (amended): a run of create_project visits Idle, Fetching, Extracting,
\* Overlaying, Rewriting, Done in that order; a run of init_project has no
\* Overlaying state and visits Idle, Fetching, Extracting, Rewriting, Done;
\* in both no state is entered twice, none of the run's states is skipped,
\* any state may go to Failed, and nothing happens after Done or Failed.
C5_OrderPerEntryPoint ==
  /\ FollowsOrder(visited, IF entryPoint = "create" THEN FullOrder ELSE InitOrder)
  /\ visited[Len(visited)] = StateOf(pc)
  /\ Terminal => ~ENABLED Next

\* C5 witness: a run of init_project reached Done without an overlay step.
C5_Witness == entryPoint = "init" /\ pc = "Done" /\ visited = InitOrder

\* C6: a run that ends in Done has left exactly the selected variant's
\* files, the two overlay files (where the entry point has an overlay step:
\* init_project has none to copy), and no placeholder token in any matching
\* file; every other run has ended in Failed with an error.
C6_DoneIsComplete ==
  /\ pc = "Done" =>
       /\ \A i \in 1..Len(archive) :
            (ClaimSelected(archive[i]) /\ ~archive[i].isDir) =>
               (Under(Landing(archive[i])) /\ IsFile(fs, Landing(archive[i])))
       /\ \A q \in DOMAIN fs :
            (Under(q) /\ fs[q].kind = "file" /\ q # TempFilePath) =>
               \/ fs[q].origin = "overlay"
               \/ \E i \in 1..Len(archive) :
                    ClaimSelected(archive[i]) /\ q = Landing(archive[i])
       /\ entryPoint = "create" =>
            \A n \in {"keyboard.toml", "vial.json"} :
              IsFile(fs, TargetDir \o <<n>>) /\ fs[TargetDir \o <<n>>].origin = "overlay"
       /\ \A q \in DOMAIN fs :
            (Under(q) /\ Extension(q) = "toml" /\ fs[q].kind = "file") =>
               Occurrences(fs[q].content, Placeholder) = 0
  /\ (Terminal /\ pc # "Done") => (pc = "Failed" /\ err # "None")

\* C7: a destination directory that exists with prior contents is removed
\* and recreated before the request is issued: when the request is sent the
\* directory exists and is empty, and from then on nothing that was in it
\* before the run is in it.
C7_CleanBeforeRequest ==
  /\ pc = "Send" =>
       (IsDir(fs, TargetDir) /\ {q \in DOMAIN fs : Under(q)} = {TargetDir})
  /\ (pc = "Send" \/ requests > 0) =>
       \A q \in DOMAIN fs : Under(q) => fs[q].origin # "prior"

\* C7 witness: a run that started on a populated destination has finished,
\* and keyboard.toml, which the prior contents had too, is a file of this run.
C7_Witness ==
  /\ prior /\ pc = "Done"
  /\ IsFile(fs, TargetDir \o <<"keyboard.toml">>)
  /\ ~Exists(fs, TargetDir \o <<"old.txt">>)

\* C8: a non-success status of the one request fails the run with the
\* download-failed error for that status: one request and no more, no temp
\* file, nothing extracted, no overlay and no rewriting.
C8_NonSuccessFails ==
  (status # 0 /\ ~(status >= 200 /\ status < 300)) =>
    /\ pc = "Failed" /\ err = "DownloadFailed"
    /\ requests = 1
    /\ ~Exists(fs, TempFilePath) /\ ~guard
    /\ written = {} /\ rewritten = {}
    /\ visited = <<"Idle", "Fetching", "Failed">>
    /\ {q \in DOMAIN fs : Under(q)} = {TargetDir}

\* C8 witness: the server answered 404 and the run has failed.
C8_Witness == status = 404 /\ pc = "Failed" /\ requests = 1

\* C9: the rewriter writes no matching file that has no occurrence of the
\* placeholder, and a write of a file that has some replaces them all.
C9_WriteOnlyIfChanged ==
  \A r \in rewritten :
    /\ Occurrences(r.old, Placeholder) > 0
    /\ r.ok => (Occurrences(r.new, Placeholder) = 0 /\ r.new # r.old)

\* C10: no error met by the rewriter is swallowed: a run in which a
\* directory could not be traversed, or a file not written, does not go on
\* to Done.
C10_NoSwallowedError ==
  pc = "Done" => (skipped = {} /\ \A r \in rewritten : r.ok)

\* Extraction had begun when the run ended.
ExtractionBegun == \E k \in 1..Len(visited) : visited[k] = "Extracting"

SuccessfullyExtracted ==
  pc = "CopyKeyboard" \/ (pc = "Walk" /\ entryPoint = "init")

SelectedEntries == {i \in 1..Len(archive) : ClaimSelected(archive[i])}

\* The selected file entries whose stripped path is q.
FileEntriesAt(q) ==
  {i \in SelectedEntries : ~archive[i].isDir /\ Landing(archive[i]) = q}

LastOf(S) == CHOOSE i \in S : \A j \in S : j <= i

\* C12 as stated: after a successful extraction, stripping the two leading
\* segments is a bijection between the selected entries and the paths the
\* step left on disk (directories leading to a written path aside): no two
\* selected entries share a path, every selected entry's path is on disk
\* with that entry's bytes, and every path left on disk is the path of
\* exactly one selected entry.
C12_Bijection ==
  SuccessfullyExtracted =>
    /\ \A i, j \in SelectedEntries :
         i # j => Landing(archive[i]) # Landing(archive[j])
    /\ \A i \in SelectedEntries :
         LET e == archive[i]
         IN  IF e.isDir THEN IsDir(fs, Landing(e))
             ELSE IsFile(fs, Landing(e)) /\ fs[Landing(e)].content = e.content
    /\ \A q \in ChangedByExtraction :
         \/ Cardinality({i \in SelectedEntries : Landing(archive[i]) = q}) = 1
         \/ IsDir(fs, q) /\ \E i \in SelectedEntries : q \in Ancestors(archive[i])

\* C12 amended: after a successful extraction every selected file entry's
\* stripped path is a file holding the bytes of the last selected file entry
\* with that path, every selected directory entry's path is a directory,
\* every file the step left on disk is the path of some selected file entry
\* and every directory it left is the path of a selected entry or leads to
\* one; the temp archive's own path is excepted.
C12_LastEntryWins ==
  SuccessfullyExtracted =>
    /\ \A i \in SelectedEntries :
         LET e == archive[i]
             q == Landing(e)
         IN  q # TempFilePath =>
               IF e.isDir THEN IsDir(fs, q)
               ELSE /\ IsFile(fs, q)
                    /\ fs[q].content = archive[LastOf(FileEntriesAt(q))].content
    /\ \A q \in ChangedByExtraction :
         /\ Exists(fs, q)
         /\ IsFile(fs, q) => FileEntriesAt(q) # {}
         /\ IsDir(fs, q) => \E i \in SelectedEntries : q \in Ancestors(archive[i])

\* C12 witness: an extraction has succeeded on an archive with two file
\* entries of one path and different bytes; the file holds the later bytes.
C12_Witness ==
  /\ SuccessfullyExtracted
  /\ \E i, j \in SelectedEntries :
       /\ i < j /\ j = LastOf(FileEntriesAt(Landing(archive[j])))
       /\ i \in FileEntriesAt(Landing(archive[j]))
       /\ archive[i].content # archive[j].content
       /\ fs[Landing(archive[j])].content = archive[j].content

\* C13: in the create flow, after Done the destination's vial.json equals
\* the caller's vial file and its keyboard.toml equals the caller's keyboard
\* config with every placeholder token replaced by the project name,
\* whatever the selected variant shipped.
C13_OverlayFromCaller ==
  (entryPoint = "create" /\ pc = "Done") =>
    /\ IsFile(fs, TargetDir \o <<"vial.json">>)
    /\ fs[TargetDir \o <<"vial.json">>].content = UserVialJson.content
    /\ IsFile(fs, TargetDir \o <<"keyboard.toml">>)
    /\ fs[TargetDir \o <<"keyboard.toml">>].content = <<"name", "=">> \o ProjectName

\* C14: the overlay step is idempotent. Run on the tree the extraction
\* left, a second run right after the first succeeds and leaves the tree of
\* the first, and the first changes keyboard.toml and vial.json of the
\* destination directory only; run again on the tree the program's own
\* overlay step left, it changes nothing.
C14_OverlayIdempotent ==
  /\ pc = "CopyKeyboard" =>
       LET once == Overlay(fs)
           twice == Overlay(once.fs)
       IN  once.ok =>
             /\ twice.ok /\ twice.fs = once.fs
             /\ Touched(fs, once.fs) \subseteq
                  {TargetDir \o <<"keyboard.toml">>, TargetDir \o <<"vial.json">>}
  /\ (entryPoint = "create" /\ pc = "Walk") =>
       Overlay(fs).ok /\ Overlay(fs).fs = fs

\* C14 witness: the overlay step has run over a tree in which the variant
\* had shipped its own keyboard.toml.
C14_Witness ==
  /\ entryPoint = "create" /\ pc = "Walk"
  /\ \E w \in written : w.path = TargetDir \o <<"keyboard.toml">>
  /\ fs[TargetDir \o <<"keyboard.toml">>].origin = "overlay"
  /\ fs[TargetDir \o <<"vial.json">>].origin = "overlay"

\* The archives with the entries of a in another index order.
Permuted(a) ==
  LET n == Len(a)
      perms == {p \in [1..n -> 1..n] : \A i, j \in 1..n : i # j => p[i] # p[j]}
  IN  {[i \in 1..n |-> a[p[i]]] : p \in perms}

\* The selected entries have pairwise distinct paths, and no file's path is
\* a prefix of another entry's path.
DistinctUnnested ==
  \A i, j \in SelectedEntries :
    i # j => /\ archive[i].name # archive[j].name
             /\ ~archive[i].isDir =>
                  ~IsPrefix(Stripped(archive[i]), Stripped(archive[j]))

\* C15: extraction does not depend on the index order. For an archive
\* whose selected entries have pairwise distinct paths, no file path being a
\* prefix of another, and which extracts successfully in its own order,
\* every permutation of the order extracts successfully and yields the same
\* tree.
C15_OrderIndependent ==
  (pc = "Extract" /\ idx = 0 /\ DistinctUnnested /\ ExtractAll(fs, archive, 1).ok) =>
    \A b \in Permuted(archive) :
      /\ ExtractAll(fs, b, 1).ok
      /\ ExtractAll(fs, b, 1).fs = ExtractAll(fs, archive, 1).fs

\* The bodies the server can answer with: the archive's bytes or a page
\* that is no archive.
ResponseBodies == {Body(archive), <<"html">>}

\* C16: during the fetch loop the temp file holds exactly the chunks
\* received so far, in arrival order, and the rest of the body is still in
\* the response stream; when the stream has ended the temp file is the whole
\* body; a run that failed with chunks still unreceived or unwritten never
\* opened the archive.
C16_ChunksInOrder ==
  /\ pc = "Stream" =>
       IsFile(fs, TempFilePath) /\ fs[TempFilePath].content \o stream \in ResponseBodies
  /\ pc = "Open" =>
       /\ stream = <<>>
       /\ IsFile(fs, TempFilePath) /\ fs[TempFilePath].content \in ResponseBodies
  /\ (pc = "Failed" /\ stream # <<>>) =>
       ~Opened /\ ~ExtractionBegun /\ written = {}

\* C16 witness: the stream of a three-chunk body has ended and the temp
\* file holds the three chunks in order.
C16_Witness ==
  /\ pc = "Open" /\ stream = <<>>
  /\ Len(Body(archive)) = 3 /\ fs[TempFilePath].content = Body(archive)

\* A step of the rewrite step leaves every path of another extension as it is.
KeepsOtherExtensions ==
  pc \in {"Walk", "Rewrite"} =>
    \A q \in DOMAIN fs :
      Extension(q) # "toml" => (q \in DOMAIN fs' /\ fs'[q] = fs[q])

\* C17: no step of the rewrite step changes a path whose extension is not
\* toml: every such path has after the step the node it had before it,
\* whether or not it holds the placeholder token.
C17_OnlyTomlRewritten == [][KeepsOtherExtensions]_vars

\* C17 witness: the rewrite step has rewritten a toml file and has ended
\* with a file of another extension under the destination directory that
\* still holds the placeholder token.
C17_Witness ==
  /\ pc = "Done"
  /\ \E r \in rewritten : r.ok /\ r.new # r.old
  /\ \E q \in DOMAIN fs :
       /\ Under(q) /\ IsFile(fs, q) /\ Extension(q) = "rs"
       /\ Occurrences(fs[q].content, Placeholder) > 0

\* The entry at index i (from 1) has a path that is not enclosed.
InvalidAt(i) == Depth(archive[i].name, 0) < 0

\* The selected file entries below index i whose stripped path is q.
FileEntriesBelow(i, q) == {j \in FileEntriesAt(q) : j < i}

\* The files on disk are those of the selected entries below index i.
OnDiskBelow(i) ==
  /\ \A j \in SelectedEntries :
       (j < i /\ Landing(archive[j]) # TempFilePath) =>
         LET e == archive[j]
             q == Landing(e)
         IN  IF e.isDir THEN IsDir(fs, q)
             ELSE /\ IsFile(fs, q)
                  /\ fs[q].content = archive[LastOf(FileEntriesBelow(i, q))].content
  /\ \A q \in ChangedByExtraction :
       /\ Exists(fs, q)
       /\ IsFile(fs, q) => FileEntriesBelow(i, q) # {}
       /\ IsDir(fs, q) =>
            \E j \in SelectedEntries : j < i /\ q \in Ancestors(archive[j])

\* The run failed in the extraction loop at the entry of index i (from 1).
FailedAtEntry(i) ==
  /\ pc = "Failed" /\ FailedFrom = "Extracting" /\ err # "Interrupted"
  /\ Opened /\ idx = i - 1

\* C18 as stated: the loop never gets past an entry with an invalid path,
\* selected or not; no entry at its index or above is written; and a run
\* that fails at it fails with the invalid-path error, the files on disk
\* being those of the selected entries below it.
C18_InvalidPathStops ==
  \A i \in 1..Len(archive) :
    InvalidAt(i) =>
      /\ Opened => idx < i
      /\ \A w \in written : w.idx < i - 1
      /\ FailedAtEntry(i) => (err = "InvalidFilePath" /\ OnDiskBelow(i))

\* C18 amended: the same, for an entry that the loop could read from the
\* archive: a run that fails at a readable entry with an invalid path, the
\* archive file being intact, fails with the invalid-path error, the files
\* on disk being those of the selected entries below it; and the
\* invalid-path error is only ever raised at an entry with an invalid path.
C18_ReadableInvalidPathStops ==
  /\ \A i \in 1..Len(archive) :
       InvalidAt(i) =>
         /\ Opened => idx < i
         /\ \A w \in written : w.idx < i - 1
         /\ (/\ FailedAtEntry(i)
             /\ archive[i].readable
             /\ IsFile(fsAtFail, TempFilePath)
             /\ fsAtFail[TempFilePath].content = Body(archive))
              => (err = "InvalidFilePath" /\ OnDiskBelow(i))
  /\ (pc = "Failed" /\ err = "InvalidFilePath") =>
       (idx < Len(archive) /\ InvalidAt(idx + 1) /\ archive[idx + 1].readable)

\* C18 witness: the selector matched the first entry, which was written;
\* the second entry has an invalid path with the selector in segment 1, and
\* the run failed there with the invalid-path error.
C18_Witness ==
  /\ Len(archive) = 2 /\ FailedAtEntry(2) /\ err = "InvalidFilePath"
  /\ archive[2].name = <<"..", "chip", "x">>
  /\ ClaimSelected(archive[1]) /\ ~archive[1].isDir
  /\ IsFile(fs, Landing(archive[1])) /\ Under(Landing(archive[1]))

\* C19: while the extraction loop runs, the temp archive file is the file
\* that was opened, with the downloaded bytes, and no entry is written to
\* its path.
C19_TempUntouched ==
  /\ pc = "Extract" =>
       (IsFile(fs, TempFilePath) /\ fs[TempFilePath] = fsAtExtract[TempFilePath])
  /\ \A w \in written : w.path # TempFilePath

====
